---------------------------- MODULE Spec2Model ----------------------------
(***************************************************************************)
(* A model of flight_snapshotter.py: the capture loop of run(), the        *)
(* configuration check of parse_args(), choose_wait_seconds(), the signal  *)
(* handler and the rotation arithmetic.                                    *)
(*                                                                         *)
(* Time is counted in ticks, TicksPerSecond of them to a second.  The      *)
(* clock advances by its own action (Tick) while the loop runs: inside a   *)
(* browser call, between two statements and while a sleep is in progress.  *)
(* Only the value a statement reads matters, so Tick is taken right before *)
(* the statements that read the clock, at most MaxLag times for each.  A   *)
(* sleep returns no sooner than the time it was given, and at most MaxLag  *)
(* ticks later.                                                            *)
(*                                                                         *)
(* Angles are counted in FinePerDegree-ths of a degree, a grid that holds  *)
(* both the two-decimal values written into the URL and the rotation of    *)
(* one tick.  Configured minutes are counted in MinuteUnits-ths of a       *)
(* minute.  Float results are rounded as doubles round them, with the fine *)
(* unit in the place of the spacing of the doubles below 256 (see Float).  *)
(***************************************************************************)
EXTENDS Integers, Sequences, FiniteSets, TLC

\* ----------------------------------------------------------------- bounds
TicksPerSecond == 2
MaxClock == 4
MaxCycles == 2
MaxSignals == 2
MaxLag == 2

\* ------------------------------------------------------ program constants
SecondsPerMinute == 60
SecondsPerHour == 3600
DegPerHour == 15
HalfTurn == 180
FullTurn == 360
Decimals2 == 100
SliceSeconds == 1
StampWidth == 4

MinuteUnits == SecondsPerMinute
FinePerDegree == Decimals2 * (SecondsPerHour \div DegPerHour) * TicksPerSecond

\* Optional[float]: << >> is None, << v >> is the value v.
NoFixed == << >>
Some(v) == << v >>

\* --------------------------------------------------------- pure functions
Min(a, b) == IF a <= b THEN a ELSE b

\* round-half-even of n/d (d > 0), as the :.2f format and float results round.
RoundDiv(n, d) ==
    LET q == n \div d
        r == n % d
    IN  IF 2 * r < d THEN q
        ELSE IF 2 * r > d THEN q + 1
        ELSE IF q % 2 = 0 THEN q ELSE q + 1

Abs(x) == IF x < 0 THEN 0 - x ELSE x

\* The spacing of the floats around v.  A double carries 53 bits: its
\* neighbours are twice as far apart from 256 on as below 256, and twice
\* again from 512 and from 1024 on.  The fine unit stands for the spacing below 256, so
\* that the rounding of a result in [256, 512) is kept.
Spacing(v) ==
    IF Abs(v) < 256 * FinePerDegree THEN 1
    ELSE IF Abs(v) < 512 * FinePerDegree THEN 2
    ELSE IF Abs(v) < 1024 * FinePerDegree THEN 4
    ELSE 8

\* The result of a float operation: the exact value v rounded to the nearest
\* float, to the even one of two equally near.
Float(v) == RoundDiv(v, Spacing(v)) * Spacing(v)

\* fmod(x, m): the remainder with the sign of x.
Fmod(x, m) == IF x >= 0 THEN x % m ELSE 0 - ((0 - x) % m)

\* Python's x % m on floats, m > 0: fmod, and m added to a negative remainder.
PyMod(x, m) ==
    LET r == Fmod(x, m)
    IN  IF r < 0 THEN Float(r + m) ELSE r

\* f"{x:.2f}" read back as a number: x to two decimals, in fine units.
Format2(x) == RoundDiv(x * Decimals2, FinePerDegree) * (FinePerDegree \div Decimals2)

\* minutes * 60.0, in ticks.
MinutesToTicks(m) == (m * SecondsPerMinute * TicksPerSecond) \div MinuteUnits

\* 15.0 * (elapsed_seconds / 3600.0), in fine units, from elapsed ticks.
DeltaDeg(elapsedTicks) ==
    (DegPerHour * elapsedTicks * FinePerDegree) \div (SecondsPerHour * TicksPerSecond)

\* ((x + 180.0) % 360.0) - 180.0
Wrap(x) ==
    Float(PyMod(Float(x + HalfTurn * FinePerDegree), FullTurn * FinePerDegree)
          - HalfTurn * FinePerDegree)

\* The rotation added instead of subtracted.
RotatedLongEast(orig, elapsedTicks) == Wrap(orig + DeltaDeg(elapsedTicks))

\* The longitude of a cycle whose URL is computed elapsedTicks after launch.
RotatedLong(orig, elapsedTicks) == Wrap(orig - DeltaDeg(elapsedTicks))

\* ------------------------------------------------------------------- URLs
\* A URL is a sequence of segments: a piece of text, or a "lat,long" pair
\* that coord_pattern matches (both numbers in fine units).
Text(n) == [pair |-> FALSE, lat |-> n, long |-> 0]
Pair(la, lo) == [pair |-> TRUE, lat |-> la, long |-> lo]

Deg(whole, hundredths) == (whole * Decimals2 + hundredths) * (FinePerDegree \div Decimals2)

\* re.search(coord_pattern, url): the index of the first pair, 0 for no match.
SearchCoord(url) ==
    IF \E i \in 1..Len(url) : url[i].pair
    THEN CHOOSE i \in 1..Len(url) : url[i].pair /\ \A j \in 1..(i - 1) : ~url[j].pair
    ELSE 0

\* re.sub(coord_pattern, f"{lat:.2f},{long:.2f}", url, count=1)
SubCoord(url, la, lo) ==
    LET i == SearchCoord(url)
    IN  IF i = 0 THEN url
        ELSE [url EXCEPT ![i] = Pair(Format2(la), Format2(lo))]

\* DEFAULT_URL, a URL without coordinates, and a URL that starts on the date
\* line, with a latitude of more than two decimals and a second pair.
DefaultUrl == << Text(0), Pair(Deg(50, 0), Deg(1, 70)), Text(1) >>
PlainUrl == << Text(0), Text(1) >>
DateLineUrl == << Text(0), Pair(Deg(50, 12) + 1, Deg(-180, 0)), Text(1),
                  Pair(Deg(10, 0), Deg(20, 0)) >>

Urls == {DefaultUrl, PlainUrl, DateLineUrl}

\* ---------------------------------------------------------- configuration
MinuteChoices == 0..2
FixedChoices == {NoFixed, Some(0), Some(1)}
SettleChoices == {0, 1}

Args ==
    [url : Urls,
     min_minutes : MinuteChoices,
     max_minutes : MinuteChoices,
     fixed_interval_minutes : FixedChoices,
     follow_rotation : BOOLEAN,
     wait_for_selector : BOOLEAN,
     settle_seconds : SettleChoices]

\* The command lines explored: the URL varied where --follow-rotation is
\* given, and the min/max pair varied where no fixed interval overrides it.
Configs ==
    {a \in Args :
        /\ ~a.follow_rotation => a.url = DefaultUrl
        /\ a.fixed_interval_minutes /= NoFixed =>
               \/ a.min_minutes < a.max_minutes
               \/ a.min_minutes <= 0}

\* parse_args without its second check.
RejectedNonPositiveOnly(a) == a.min_minutes <= 0 \/ a.max_minutes <= 0

\* parse_args: the two parser.error checks.
Rejected(a) ==
    \/ a.min_minutes <= 0 \/ a.max_minutes <= 0
    \/ a.max_minutes < a.min_minutes

\* choose_wait_seconds without the fixed-interval branch.
choose_wait_random_only(c) ==
    MinutesToTicks(c.min_minutes)..MinutesToTicks(c.max_minutes)

\* choose_wait_seconds: the set of values one call can return, in ticks.
choose_wait_seconds(c) ==
    IF c.fixed_interval_minutes /= NoFixed
    THEN {MinutesToTicks(c.fixed_interval_minutes[1])}
    ELSE MinutesToTicks(c.min_minutes)..MinutesToTicks(c.max_minutes)

\* ------------------------------------------------------------------ state
VARIABLES
    config,                 \* the Config of this run (argv, as parsed)
    pc,                     \* the statement the main thread is at
    exit_status,            \* -1 while running, else the process's exit status
    diagnostic,             \* the message the process ends with
    handlers,               \* TRUE once signal.signal has installed handle_signal
    should_stop,            \* run's should_stop
    clock,                  \* time.time(), in ticks
    browser,                \* "none", "open" or "closed"
    start_time,             \* run's start_time, -1 for None
    follow_rotation_active, \* run's follow_rotation_active
    orig_lat_val,
    orig_long_val,
    current_long,
    current_url,
    cycle,                  \* run's cycle
    contexts,               \* the cycles whose browsing context is open
    out_path,               \* << the stamp, the counter's digits >>
    wait_seconds,           \* in ticks
    wake_at,
    sleep_until,            \* the time the sleep in progress was asked to end
    raised,                 \* what left the cycle loop: "none", "StopLoop", "Error"
    lag,                    \* ticks since the statement at pc was reached (for
                            \* a sleep in progress: ticks past its end)
    hist                    \* what was done so far (see Hist0)

vars == << config, pc, exit_status, diagnostic, handlers, should_stop, clock,
           browser, start_time, follow_rotation_active, orig_lat_val,
           orig_long_val, current_long, current_url, cycle, contexts, out_path,
           wait_seconds, wake_at, sleep_until, raised, lag, hist >>

\* The record of what the run did: the calls made on the browser driver, the
\* URLs navigated to and the elapsed time each was computed at, the files
\* written, and what the timing claims need to know of signals and sleeps.
Hist0 ==
    [calls |-> {},              \* names of the driver calls made
     navigated |-> << >>,       \* the URL of each page.goto
     url_elapsed |-> << >>,     \* ticks since launch when each cycle read the clock
     shots |-> << >>,           \* the path of each page.screenshot
     ctx_closes |-> 0,          \* context.close() calls
     closes |-> 0,              \* browser.close() calls
     signals |-> 0,             \* handled signals (counted up to MaxSignals)
     since_sig |-> -1,          \* ticks since the first signal delivered in a sleep
                                \* phase (-1: none; counted up to SinceCap)
     slices_after |-> 0,        \* sleep increments requested after that signal
     last_slice |-> 0,          \* length of the last sleep increment requested
     nav_timeout |-> FALSE,     \* this cycle's page.goto timed out
     sel_timeout |-> FALSE,     \* this cycle's wait_for_selector timed out
     settled |-> FALSE,         \* this cycle slept its settle time
     close_failed |-> FALSE,    \* browser.close() raised
     missing |-> "none",        \* the dependency found missing: "module", "browser"
     cause |-> "none"]          \* the call whose exception left the loop

SinceCap == SliceSeconds * TicksPerSecond + 1

LoopPcs == {"loop_top", "new_context", "stamp", "goto", "selector", "settle",
            "settling", "screenshot", "close_context", "choose_wait",
            "sleep_test", "sleep_check", "sleep_read", "sleeping"}

SleepPcs == {"sleep_test", "sleep_check", "sleep_read", "sleeping"}

Init ==
    /\ config \in Configs
    /\ pc = "parse"
    /\ exit_status = -1
    /\ diagnostic = "none"
    /\ handlers = FALSE
    /\ should_stop = FALSE
    /\ clock = 0
    /\ browser = "none"
    /\ start_time = -1
    /\ follow_rotation_active = FALSE
    /\ orig_lat_val = 0
    /\ orig_long_val = 0
    /\ current_long = 0
    /\ current_url = << >>
    /\ cycle = 0
    /\ contexts = {}
    /\ out_path = << >>
    /\ wait_seconds = 0
    /\ wake_at = 0
    /\ sleep_until = 0
    /\ raised = "none"
    /\ lag = 0
    /\ hist = Hist0

\* The process ends: sys.exit(status) or an uncaught exception.
Exit(status, message) ==
    /\ pc' = "exited"
    /\ exit_status' = status
    /\ diagnostic' = message

\* An exception other than StopLoop leaves the while loop for the finally.
Raise(call) ==
    /\ pc' = "cleanup"
    /\ raised' = "Error"
    /\ hist' = [hist EXCEPT !.calls = @ \cup {call}, !.cause = call]

Called(call) == [hist EXCEPT !.calls = @ \cup {call}]

\* ---------------------------------------------------------------- startup
\* main -> parse_args: a rejected configuration ends in parser.error (status 2).
ParseArgs ==
    /\ pc = "parse"
    /\ IF Rejected(config)
       THEN Exit(2, "usage")
       ELSE /\ pc' = "import"
            /\ UNCHANGED << exit_status, diagnostic >>
    /\ UNCHANGED << config, handlers, should_stop, clock, browser, start_time,
                    follow_rotation_active, orig_lat_val, orig_long_val,
                    current_long, current_url, cycle, contexts, out_path,
                    wait_seconds, wake_at, sleep_until, raised, hist >>
    /\ lag' = 0

\* run: the import of playwright.sync_api, which the environment may lack.
ImportPlaywright ==
    /\ pc = "import"
    /\ \E installed \in BOOLEAN :
          IF installed
          THEN /\ pc' = "prepare"
               /\ UNCHANGED << exit_status, diagnostic, hist >>
          ELSE /\ Exit(1, "install playwright")
               /\ hist' = [hist EXCEPT !.missing = "module"]
    /\ UNCHANGED << config, handlers, should_stop, clock, browser, start_time,
                    follow_rotation_active, orig_lat_val, orig_long_val,
                    current_long, current_url, cycle, contexts, out_path,
                    wait_seconds, wake_at, sleep_until, raised >>
    /\ lag' = 0

\* The rotation state set up from the URL whether or not --follow-rotation
\* was given.
PrepareRotationAlways ==
    /\ pc = "prepare"
    /\ pc' = "launch"
    /\ should_stop' = FALSE
    /\ handlers' = TRUE
    /\ current_url' = config.url
    /\ LET m == SearchCoord(config.url)
       IN  IF m /= 0
           THEN /\ follow_rotation_active' = TRUE
                /\ orig_lat_val' = config.url[m].lat
                /\ orig_long_val' = config.url[m].long
                /\ current_long' = config.url[m].long
           ELSE /\ follow_rotation_active' = FALSE
                /\ UNCHANGED << orig_lat_val, orig_long_val, current_long >>
    /\ start_time' = -1
    /\ UNCHANGED << config, exit_status, diagnostic, clock, browser, cycle,
                    contexts, out_path, wait_seconds, wake_at, sleep_until,
                    raised, hist >>
    /\ lag' = 0

\* run: mkdir, should_stop = False, the two signal.signal calls, and the
\* rotation state read from the URL.
Prepare ==
    /\ pc = "prepare"
    /\ pc' = "launch"
    /\ should_stop' = FALSE
    /\ handlers' = TRUE
    /\ current_url' = config.url
    /\ LET m == SearchCoord(config.url)
       IN  IF config.follow_rotation /\ m /= 0
           THEN /\ follow_rotation_active' = TRUE
                /\ orig_lat_val' = config.url[m].lat
                /\ orig_long_val' = config.url[m].long
                /\ current_long' = config.url[m].long
           ELSE /\ follow_rotation_active' = FALSE
                /\ UNCHANGED << orig_lat_val, orig_long_val, current_long >>
    /\ start_time' = -1
    /\ UNCHANGED << config, exit_status, diagnostic, clock, browser, cycle,
                    contexts, out_path, wait_seconds, wake_at, sleep_until,
                    raised, hist >>
    /\ lag' = 0

\* The launch with its failure printed and the run going on.
LaunchIgnoresFailure ==
    /\ pc = "launch"
    /\ \E outcome \in {"ok", "no_browser", "error"} :
          /\ hist' = [Called("launch") EXCEPT
                         !.cause = IF outcome = "ok" THEN "none" ELSE "launch",
                         !.missing = IF outcome = "no_browser"
                                     THEN "browser" ELSE "none"]
          /\ IF outcome = "ok"
             THEN /\ browser' = "open"
                  /\ start_time' = clock
                  /\ cycle' = 0
                  /\ pc' = "loop_top"
                  /\ UNCHANGED << exit_status, diagnostic >>
             ELSE /\ cycle' = 0
                  /\ pc' = "loop_top"
                  /\ UNCHANGED << browser, start_time, exit_status,
                                  diagnostic >>
    /\ UNCHANGED << config, handlers, should_stop, clock,
                    follow_rotation_active, orig_lat_val, orig_long_val,
                    current_long, current_url, contexts, out_path,
                    wait_seconds, wake_at, sleep_until, raised >>
    /\ lag' = 0

\* run: playwright.chromium.launch under sync_playwright(); start_time and
\* cycle = 0 on success, SystemExit or the exception itself on failure.
Launch ==
    /\ pc = "launch"
    /\ \E outcome \in {"ok", "no_browser", "error"} :
          /\ hist' = [Called("launch") EXCEPT
                         !.cause = IF outcome = "ok" THEN "none" ELSE "launch",
                         !.missing = IF outcome = "no_browser"
                                     THEN "browser" ELSE "none"]
          /\ IF outcome = "ok"
             THEN /\ browser' = "open"
                  /\ start_time' = clock
                  /\ cycle' = 0
                  /\ pc' = "loop_top"
                  /\ UNCHANGED << exit_status, diagnostic >>
             ELSE /\ Exit(1, IF outcome = "no_browser"
                             THEN "install chromium" ELSE "traceback")
                  /\ UNCHANGED << browser, start_time, cycle >>
    /\ UNCHANGED << config, handlers, should_stop, clock,
                    follow_rotation_active, orig_lat_val, orig_long_val,
                    current_long, current_url, contexts, out_path,
                    wait_seconds, wake_at, sleep_until, raised >>
    /\ lag' = 0

\* ------------------------------------------------------------- the cycle
\* while True: if should_stop: raise StopLoop; cycle += 1
LoopTop ==
    /\ pc = "loop_top"
    /\ IF should_stop
       THEN /\ pc' = "cleanup"
            /\ raised' = "StopLoop"
            /\ UNCHANGED cycle
       ELSE /\ cycle < MaxCycles
            /\ cycle' = cycle + 1
            /\ pc' = "new_context"
            /\ UNCHANGED raised
    /\ UNCHANGED << config, exit_status, diagnostic, handlers, should_stop,
                    clock, hist, browser, start_time, follow_rotation_active,
                    orig_lat_val, orig_long_val, current_long, current_url,
                    contexts, out_path, wait_seconds, wake_at, sleep_until >>
    /\ lag' = 0

\* browser.new_context(...) and context.new_page()
NewContext ==
    /\ pc = "new_context"
    /\ \E ok \in BOOLEAN :
          IF ok
          THEN /\ contexts' = contexts \cup {cycle}
               /\ hist' = Called("new_context")
               /\ pc' = "stamp"
               /\ UNCHANGED raised
          ELSE /\ Raise("new_context")
               /\ UNCHANGED contexts
    /\ UNCHANGED << config, exit_status, diagnostic, handlers, should_stop,
                    clock, browser, start_time, follow_rotation_active,
                    orig_lat_val, orig_long_val, current_long, current_url,
                    cycle, out_path, wait_seconds, wake_at, sleep_until >>
    /\ lag' = 0

\* utc_stamp(): the clock in whole seconds.
utc_stamp == clock \div TicksPerSecond

\* f"{n:04d}": the decimal digits of n, zeros put before them up to four.
Format04d(n) ==
    LET digits[m \in Nat] ==
            IF m < 10 THEN << m >> ELSE Append(digits[m \div 10], m % 10)
        d == digits[n]
    IN  [i \in 1..(StampWidth - Len(d)) |-> 0] \o d

\* The file name without the counter.
OutPathStampOnly == << utc_stamp, << >> >>

\* config.output_dir / f"fr24_{stamp}_{cycle:04d}.png"
OutPath == << utc_stamp, Format04d(cycle) >>

\* The stamp with the longitude moved on from the last one by the time since
\* the last snapshot.
StampIncremental ==
    /\ pc = "stamp"
    /\ pc' = "goto"
    /\ out_path' = OutPath
    /\ IF follow_rotation_active /\ start_time /= -1
       THEN LET long == IF cycle = 1
                        THEN RotatedLong(orig_long_val, clock - start_time)
                        ELSE RotatedLong(current_long,
                                         clock - (wake_at - wait_seconds))
            IN  /\ current_long' = long
                /\ current_url' = SubCoord(config.url, orig_lat_val, long)
       ELSE UNCHANGED << current_long, current_url >>
    /\ hist' = IF follow_rotation_active /\ start_time /= -1
               THEN [hist EXCEPT !.url_elapsed = Append(@, clock - start_time)]
               ELSE hist
    /\ UNCHANGED << config, exit_status, diagnostic, handlers, should_stop,
                    clock, browser, start_time, follow_rotation_active,
                    orig_lat_val, orig_long_val, cycle, contexts,
                    wait_seconds, wake_at, sleep_until, raised >>
    /\ lag' = 0

\* stamp, out_path, and the URL of this cycle when rotation is followed.
Stamp ==
    /\ pc = "stamp"
    /\ pc' = "goto"
    /\ out_path' = OutPath
    /\ IF follow_rotation_active /\ start_time /= -1
       THEN LET long == RotatedLong(orig_long_val, clock - start_time)
            IN  /\ current_long' = long
                /\ current_url' = SubCoord(config.url, orig_lat_val, long)
       ELSE UNCHANGED << current_long, current_url >>
    /\ hist' = IF follow_rotation_active /\ start_time /= -1
               THEN [hist EXCEPT !.url_elapsed = Append(@, clock - start_time)]
               ELSE hist
    /\ UNCHANGED << config, exit_status, diagnostic, handlers, should_stop,
                    clock, browser, start_time, follow_rotation_active,
                    orig_lat_val, orig_long_val, cycle, contexts,
                    wait_seconds, wake_at, sleep_until, raised >>
    /\ lag' = 0

\* page.goto with its timeout left uncaught.
GotoTimeoutFatal ==
    /\ pc = "goto"
    /\ \E outcome \in {"ok", "timeout", "error"} :
          IF outcome = "ok"
          THEN /\ hist' = [Called("goto") EXCEPT
                              !.navigated = Append(@, current_url)]
               /\ pc' = "selector"
               /\ UNCHANGED raised
          ELSE /\ pc' = "cleanup"
               /\ raised' = "Error"
               /\ hist' = [Called("goto") EXCEPT
                              !.cause = "goto",
                              !.nav_timeout = (outcome = "timeout")]
    /\ UNCHANGED << config, exit_status, diagnostic, handlers, should_stop,
                    clock, browser, start_time, follow_rotation_active,
                    orig_lat_val, orig_long_val, current_long, current_url,
                    cycle, contexts, out_path, wait_seconds, wake_at,
                    sleep_until >>
    /\ lag' = 0

\* page.goto(current_url, ...): PlaywrightTimeoutError is caught and printed.
Goto ==
    /\ pc = "goto"
    /\ \E outcome \in {"ok", "timeout", "error"} :
          IF outcome = "error"
          THEN /\ Raise("goto")
          ELSE /\ hist' = [Called("goto") EXCEPT
                              !.navigated = Append(@, current_url),
                              !.nav_timeout = (outcome = "timeout")]
               /\ pc' = "selector"
               /\ UNCHANGED raised
    /\ UNCHANGED << config, exit_status, diagnostic, handlers, should_stop,
                    clock, browser, start_time, follow_rotation_active,
                    orig_lat_val, orig_long_val, current_long, current_url,
                    cycle, contexts, out_path, wait_seconds, wake_at,
                    sleep_until >>
    /\ lag' = 0

\* if config.wait_for_selector: page.wait_for_selector(...), timeout caught.
WaitForSelector ==
    /\ pc = "selector"
    /\ IF config.wait_for_selector
       THEN \E outcome \in {"ok", "timeout", "error"} :
               IF outcome = "error"
               THEN Raise("wait_for_selector")
               ELSE /\ hist' = [Called("wait_for_selector") EXCEPT
                                   !.sel_timeout = (outcome = "timeout")]
                    /\ pc' = "settle"
                    /\ UNCHANGED raised
       ELSE /\ pc' = "settle"
            /\ UNCHANGED << raised, hist >>
    /\ UNCHANGED << config, exit_status, diagnostic, handlers, should_stop,
                    clock, browser, start_time, follow_rotation_active,
                    orig_lat_val, orig_long_val, current_long, current_url,
                    cycle, contexts, out_path, wait_seconds, wake_at,
                    sleep_until >>
    /\ lag' = 0

\* if config.settle_seconds > 0: time.sleep(config.settle_seconds)
Settle ==
    /\ pc = "settle"
    /\ IF config.settle_seconds > 0
       THEN /\ sleep_until' = clock + config.settle_seconds * TicksPerSecond
            /\ pc' = "settling"
       ELSE /\ pc' = "screenshot"
            /\ UNCHANGED sleep_until
    /\ UNCHANGED << config, exit_status, diagnostic, handlers, should_stop,
                    clock, browser, start_time, follow_rotation_active,
                    orig_lat_val, orig_long_val, current_long, current_url,
                    cycle, contexts, out_path, wait_seconds, wake_at, raised,
                    hist >>
    /\ lag' = 0

\* the settle sleep returns
Settled ==
    /\ pc = "settling"
    /\ clock >= sleep_until
    /\ pc' = "screenshot"
    /\ sleep_until' = 0
    /\ hist' = [hist EXCEPT !.settled = TRUE]
    /\ UNCHANGED << config, exit_status, diagnostic, handlers, should_stop,
                    clock, browser, start_time, follow_rotation_active,
                    orig_lat_val, orig_long_val, current_long, current_url,
                    cycle, contexts, out_path, wait_seconds, wake_at,
                    raised >>
    /\ lag' = 0

\* page.screenshot behind a check of the shutdown flag.
ScreenshotUnlessStopped ==
    /\ pc = "screenshot"
    /\ IF should_stop
       THEN /\ pc' = "cleanup"
            /\ raised' = "StopLoop"
            /\ UNCHANGED hist
       ELSE /\ hist' = [Called("screenshot") EXCEPT
                           !.shots = Append(@, out_path)]
            /\ pc' = "close_context"
            /\ UNCHANGED raised
    /\ UNCHANGED << config, exit_status, diagnostic, handlers, should_stop,
                    clock, browser, start_time, follow_rotation_active,
                    orig_lat_val, orig_long_val, current_long, current_url,
                    cycle, contexts, out_path, wait_seconds, wake_at,
                    sleep_until >>
    /\ lag' = 0

\* page.screenshot with its failure caught and printed.
ScreenshotFailureSwallowed ==
    /\ pc = "screenshot"
    /\ \E ok \in BOOLEAN :
          hist' = IF ok
                  THEN [Called("screenshot") EXCEPT
                           !.shots = Append(@, out_path)]
                  ELSE [Called("screenshot") EXCEPT !.cause = "screenshot"]
    /\ pc' = "close_context"
    /\ UNCHANGED << config, exit_status, diagnostic, handlers, should_stop,
                    clock, browser, start_time, follow_rotation_active,
                    orig_lat_val, orig_long_val, current_long, current_url,
                    cycle, contexts, out_path, wait_seconds, wake_at,
                    sleep_until, raised >>
    /\ lag' = 0

\* page.screenshot(path=str(out_path), full_page=False)
Screenshot ==
    /\ pc = "screenshot"
    /\ \E ok \in BOOLEAN :
          IF ok
          THEN /\ hist' = [Called("screenshot") EXCEPT
                              !.shots = Append(@, out_path)]
               /\ pc' = "close_context"
               /\ UNCHANGED raised
          ELSE Raise("screenshot")
    /\ UNCHANGED << config, exit_status, diagnostic, handlers, should_stop,
                    clock, browser, start_time, follow_rotation_active,
                    orig_lat_val, orig_long_val, current_long, current_url,
                    cycle, contexts, out_path, wait_seconds, wake_at,
                    sleep_until >>
    /\ lag' = 0

\* try: context.close() except Exception: print a warning.  A close that
\* raised may or may not have released the context.
CloseContext ==
    /\ pc = "close_context"
    /\ \E outcome \in {"closed", "raised_closed", "raised_open"} :
          contexts' = IF outcome = "raised_open" THEN contexts
                      ELSE contexts \ {cycle}
    /\ hist' = [Called("close_context") EXCEPT
                   !.ctx_closes = @ + 1,
                   !.nav_timeout = FALSE, !.sel_timeout = FALSE,
                   !.settled = FALSE]
    /\ pc' = "choose_wait"
    /\ UNCHANGED << config, exit_status, diagnostic, handlers, should_stop,
                    clock, browser, start_time, follow_rotation_active,
                    orig_lat_val, orig_long_val, current_long, current_url,
                    cycle, out_path, wait_seconds, wake_at, sleep_until,
                    raised >>
    /\ lag' = 0

\* ------------------------------------------------------- the sleep phase
\* wait_seconds = choose_wait_seconds(config); wake_at = time.time() + wait_seconds
ChooseWait ==
    /\ pc = "choose_wait"
    /\ \E w \in choose_wait_seconds(config) :
          /\ wait_seconds' = w
          /\ wake_at' = clock + w
    /\ pc' = "sleep_test"
    /\ UNCHANGED << config, exit_status, diagnostic, handlers, should_stop,
                    clock, browser, start_time, follow_rotation_active,
                    orig_lat_val, orig_long_val, current_long, current_url,
                    cycle, contexts, out_path, sleep_until, raised, hist >>
    /\ lag' = 0

\* while time.time() < wake_at:
SleepTest ==
    /\ pc = "sleep_test"
    /\ pc' = IF clock < wake_at THEN "sleep_check" ELSE "loop_top"
    /\ UNCHANGED << config, exit_status, diagnostic, handlers, should_stop,
                    clock, browser, start_time, follow_rotation_active,
                    orig_lat_val, orig_long_val, current_long, current_url,
                    cycle, contexts, out_path, wait_seconds, wake_at,
                    sleep_until, raised, hist >>
    /\ lag' = 0

\* if should_stop: raise StopLoop
SleepCheck ==
    /\ pc = "sleep_check"
    /\ IF should_stop
       THEN /\ pc' = "cleanup"
            /\ raised' = "StopLoop"
       ELSE /\ pc' = "sleep_read"
            /\ UNCHANGED raised
    /\ UNCHANGED << config, exit_status, diagnostic, handlers, should_stop,
                    clock, browser, start_time, follow_rotation_active,
                    orig_lat_val, orig_long_val, current_long, current_url,
                    cycle, contexts, out_path, wait_seconds, wake_at,
                    sleep_until, hist >>
    /\ lag' = 0

\* One sleep for the whole of the wait that is left.
SliceLengthWhole == wake_at - clock

\* min(1.0, wake_at - time.time()): the length of the next sleep increment.
SliceLength == Min(SliceSeconds * TicksPerSecond, wake_at - clock)

\* time.sleep(min(1.0, wake_at - time.time())): the second read of the
\* clock; time.sleep raises ValueError for a negative length.
SleepSlice ==
    /\ pc = "sleep_read"
    /\ LET d == SliceLength
           after == IF hist.since_sig >= 0 THEN 1 ELSE 0
       IN  IF d < 0
           THEN /\ pc' = "cleanup"
                /\ raised' = "Error"
                /\ hist' = [hist EXCEPT !.cause = "sleep", !.last_slice = d,
                                        !.slices_after = @ + after]
                /\ UNCHANGED sleep_until
           ELSE /\ pc' = "sleeping"
                /\ sleep_until' = clock + d
                /\ hist' = [hist EXCEPT !.last_slice = d,
                                        !.slices_after = @ + after]
                /\ UNCHANGED raised
    /\ UNCHANGED << config, exit_status, diagnostic, handlers, should_stop,
                    clock, browser, start_time, follow_rotation_active,
                    orig_lat_val, orig_long_val, current_long, current_url,
                    cycle, contexts, out_path, wait_seconds, wake_at >>
    /\ lag' = 0

\* The wait as a single sleep increment: the deadline is not tested again.
WakeEndsWait ==
    /\ pc = "sleeping"
    /\ clock >= sleep_until
    /\ pc' = "loop_top"
    /\ sleep_until' = 0
    /\ UNCHANGED << config, exit_status, diagnostic, handlers, should_stop,
                    clock, browser, start_time, follow_rotation_active,
                    orig_lat_val, orig_long_val, current_long, current_url,
                    cycle, contexts, out_path, wait_seconds, wake_at,
                    raised, hist >>
    /\ lag' = 0

\* the sleep increment returns
Wake ==
    /\ pc = "sleeping"
    /\ clock >= sleep_until
    /\ pc' = "sleep_test"
    /\ sleep_until' = 0
    /\ UNCHANGED << config, exit_status, diagnostic, handlers, should_stop,
                    clock, browser, start_time, follow_rotation_active,
                    orig_lat_val, orig_long_val, current_long, current_url,
                    cycle, contexts, out_path, wait_seconds, wake_at,
                    raised, hist >>
    /\ lag' = 0

\* ---------------------------------------------------------------- the end
\* The finally block with browser.close() left unguarded.
CleanupPropagates ==
    /\ pc = "cleanup"
    /\ \E ok \in BOOLEAN :
          hist' = [Called("close_browser") EXCEPT !.closes = @ + 1,
                                                  !.close_failed = ~ok]
    /\ browser' = "closed"
    /\ contexts' = IF hist'.close_failed THEN contexts ELSE {}
    /\ IF raised = "StopLoop" /\ ~hist'.close_failed
       THEN Exit(0, "Stopped.")
       ELSE Exit(1, "traceback")
    /\ UNCHANGED << config, handlers, should_stop, clock, start_time,
                    follow_rotation_active, orig_lat_val, orig_long_val,
                    current_long, current_url, cycle, out_path,
                    wait_seconds, wake_at, sleep_until, raised >>
    /\ lag' = 0

\* browser.close() in the except StopLoop clause instead of a finally block.
CleanupNoFinally ==
    /\ pc = "cleanup"
    /\ IF raised = "StopLoop"
       THEN /\ \E ok \in BOOLEAN :
                  hist' = [Called("close_browser") EXCEPT
                              !.closes = @ + 1, !.close_failed = ~ok]
            /\ browser' = "closed"
            /\ contexts' = IF hist'.close_failed THEN contexts ELSE {}
            /\ Exit(0, "Stopped.")
       ELSE /\ Exit(1, "traceback")
            /\ UNCHANGED << hist, browser, contexts >>
    /\ UNCHANGED << config, handlers, should_stop, clock, start_time,
                    follow_rotation_active, orig_lat_val, orig_long_val,
                    current_long, current_url, cycle, out_path,
                    wait_seconds, wake_at, sleep_until, raised >>
    /\ lag' = 0

\* except StopLoop: print("Stopped.") / finally: browser.close(), its own
\* exception printed; then run returns and main returns 0, or the exception
\* that left the loop ends the process.  A browser that closed has closed
\* its contexts.
Cleanup ==
    /\ pc = "cleanup"
    /\ \E ok \in BOOLEAN :
          hist' = [Called("close_browser") EXCEPT !.closes = @ + 1,
                                                  !.close_failed = ~ok]
    /\ browser' = "closed"
    /\ contexts' = IF hist'.close_failed THEN contexts ELSE {}
    /\ IF raised = "StopLoop"
       THEN Exit(0, "Stopped.")
       ELSE Exit(1, "traceback")
    /\ UNCHANGED << config, handlers, should_stop, clock, start_time,
                    follow_rotation_active, orig_lat_val, orig_long_val,
                    current_long, current_url, cycle, out_path,
                    wait_seconds, wake_at, sleep_until, raised >>
    /\ lag' = 0

\* ---------------------------------------------------------------- signals
\* A handler that flips the flag.
HandleSignalToggle ==
    /\ handlers
    /\ pc /= "exited"
    /\ hist.signals < MaxSignals
    /\ should_stop' = ~should_stop
    /\ hist' = [hist EXCEPT !.signals = @ + 1,
                            !.since_sig = IF @ = -1 /\ pc \in SleepPcs
                                          THEN 0 ELSE @]
    /\ UNCHANGED << config, pc, exit_status, diagnostic, handlers, clock,
                    browser, start_time, follow_rotation_active, orig_lat_val,
                    orig_long_val, current_long, current_url, cycle, contexts,
                    out_path, wait_seconds, wake_at, sleep_until, raised,
                    lag >>

\* handle_signal: should_stop = True (SIGINT or SIGTERM, once installed).
HandleSignal ==
    /\ handlers
    /\ pc /= "exited"
    /\ hist.signals < MaxSignals
    /\ should_stop' = TRUE
    /\ hist' = [hist EXCEPT !.signals = @ + 1,
                            !.since_sig = IF @ = -1 /\ pc \in SleepPcs
                                          THEN 0 ELSE @]
    /\ UNCHANGED << config, pc, exit_status, diagnostic, handlers, clock,
                    browser, start_time, follow_rotation_active, orig_lat_val,
                    orig_long_val, current_long, current_url, cycle, contexts,
                    out_path, wait_seconds, wake_at, sleep_until, raised,
                    lag >>

\* A signal before the handlers are installed ends the process.
DefaultSignal ==
    /\ ~handlers
    /\ pc /= "exited"
    /\ Exit(130, "killed")
    /\ UNCHANGED << config, handlers, should_stop, clock, browser, start_time,
                    follow_rotation_active, orig_lat_val, orig_long_val,
                    current_long, current_url, cycle, contexts, out_path,
                    wait_seconds, wake_at, sleep_until, raised, hist >>
    /\ lag' = 0

\* ------------------------------------------------------------------ time
\* The statements that read the clock (utc_stamp and time.time() at the
\* stamp, the two sleeps' starts and ends, wake_at, the loop test and the
\* increment's length).
ClockReadPcs == {"stamp", "settle", "settling", "choose_wait", "sleep_test",
                 "sleep_read", "sleeping"}

Asleep == pc \in {"settling", "sleeping"} /\ clock < sleep_until

\* The clock advances while the loop runs: through a sleep in progress, and
\* by up to MaxLag ticks before a statement that reads the clock is run or
\* after a sleep's end.
Tick ==
    /\ pc \in ClockReadPcs
    /\ clock < MaxClock
    /\ Asleep \/ lag < MaxLag
    /\ clock' = clock + 1
    /\ lag' = IF Asleep THEN lag ELSE lag + 1
    /\ hist' = [hist EXCEPT !.since_sig =
                   IF @ >= 0 /\ @ < SinceCap THEN @ + 1 ELSE @]
    /\ UNCHANGED << config, pc, exit_status, diagnostic, handlers,
                    should_stop, browser, start_time, follow_rotation_active,
                    orig_lat_val, orig_long_val, current_long, current_url,
                    cycle, contexts, out_path, wait_seconds, wake_at,
                    sleep_until, raised >>

Next ==
    \/ ParseArgs
    \/ ImportPlaywright
    \/ Prepare
    \/ Launch
    \/ LoopTop
    \/ NewContext
    \/ Stamp
    \/ Goto
    \/ WaitForSelector
    \/ Settle
    \/ Settled
    \/ Screenshot
    \/ CloseContext
    \/ ChooseWait
    \/ SleepTest
    \/ SleepCheck
    \/ SleepSlice
    \/ Wake
    \/ Cleanup
    \/ HandleSignal
    \/ DefaultSignal
    \/ Tick

Spec == Init /\ [][Next]_vars

\* ------------------------------------------------------ the wrap function
\* The expression of line 265 as a function of its own, applied to a float x
\* and then to its own result.  The inputs lie within a few floats of the
\* multiples of a half turn, two turns either way.
MaxTurns == 2
MaxOffset == 8

WrapInputs ==
    {x \in {k * HalfTurn * FinePerDegree + d :
                k \in (0 - 2 * MaxTurns)..(2 * MaxTurns),
                d \in (0 - MaxOffset)..MaxOffset} : Float(x) = x}

WrapInit ==
    /\ config = CHOOSE c \in Configs : c.follow_rotation /\ ~Rejected(c)
    /\ pc = "wrap"
    /\ exit_status = -1
    /\ diagnostic = "none"
    /\ handlers = FALSE
    /\ should_stop = FALSE
    /\ clock = 0
    /\ browser = "none"
    /\ start_time = -1
    /\ follow_rotation_active = TRUE
    /\ orig_lat_val = 0
    /\ orig_long_val \in WrapInputs
    /\ current_long = orig_long_val
    /\ current_url = << >>
    /\ cycle = 0
    /\ contexts = {}
    /\ out_path = << >>
    /\ wait_seconds = 0
    /\ wake_at = 0
    /\ sleep_until = 0
    /\ raised = "none"
    /\ lag = 0
    /\ hist = Hist0

\* current_long = wrap(x)
WrapOnce ==
    /\ pc = "wrap"
    /\ pc' = "wrapped"
    /\ current_long' = Wrap(orig_long_val)
    /\ UNCHANGED << config, exit_status, diagnostic, handlers, should_stop,
                    clock, browser, start_time, follow_rotation_active,
                    orig_lat_val, orig_long_val, current_url, cycle, contexts,
                    out_path, wait_seconds, wake_at, sleep_until, raised, lag,
                    hist >>

\* current_long = wrap(current_long)
WrapAgain ==
    /\ pc = "wrapped"
    /\ pc' = "rewrapped"
    /\ current_long' = Wrap(current_long)
    /\ UNCHANGED << config, exit_status, diagnostic, handlers, should_stop,
                    clock, browser, start_time, follow_rotation_active,
                    orig_lat_val, orig_long_val, current_url, cycle, contexts,
                    out_path, wait_seconds, wake_at, sleep_until, raised, lag,
                    hist >>

WrapNext == WrapOnce \/ WrapAgain

WrapSpec == WrapInit /\ [][WrapNext]_vars

\* ----------------------------------------------------------------- claims
OneSecond == SliceSeconds * TicksPerSecond

\* C1 (as stated): once a signal was delivered in the sleep phase, the loop
\* has been left by the time more than one second has passed on the clock.
C1_LeftWithinOneSecond ==
    hist.since_sig > OneSecond => pc \notin LoopPcs

\* C1 (amended): after a signal delivered in the sleep phase the loop does no
\* further cycle work (no context, navigation or capture; at the loop's top
\* the flag is set, so the next step leaves) and asks for at most one more
\* sleep increment, of at most one second, before it leaves.
C1_LeavesAfterOneSlice ==
    hist.since_sig >= 0 =>
        /\ pc \in SleepPcs \cup {"loop_top", "cleanup", "exited"}
        /\ pc = "loop_top" => should_stop
        /\ Len(hist.shots) = cycle
        /\ Len(hist.navigated) = cycle
        /\ hist.slices_after <= 1
        /\ hist.slices_after = 1 => hist.last_slice <= OneSecond
        /\ pc \in {"cleanup", "exited"} /\ raised = "Error" => hist.cause = "sleep"

C1_Witness ==
    /\ pc = "cleanup"
    /\ raised = "StopLoop"
    /\ hist.since_sig = OneSecond
    /\ hist.slices_after = 1

TimedOut == hist.nav_timeout \/ hist.sel_timeout

\* C2: a Timeout of page.goto or of wait_for_selector never diverts the
\* cycle: it goes on to the settle sleep (slept when settle_seconds > 0) and
\* to the capture, after which exactly one screenshot of this cycle exists,
\* at the cycle's out_path, and the loop is still running; only a
\* non-Timeout error of a later call of the cycle ends the run.
C2_TimeoutStillCaptures ==
    TimedOut =>
        \/ pc \in {"selector", "settle", "settling", "screenshot"}
        \/ /\ pc = "close_context"
           /\ raised = "none"
           /\ Len(hist.shots) = cycle
           /\ hist.shots[cycle] = out_path
           /\ out_path[2] = Format04d(cycle)
           /\ config.settle_seconds > 0 => hist.settled
        \/ /\ pc \in {"cleanup", "exited"}
           /\ raised = "Error"
           /\ hist.cause \in {"wait_for_selector", "screenshot"}

C2_Witness ==
    /\ pc = "close_context"
    /\ hist.nav_timeout
    /\ hist.sel_timeout
    /\ hist.settled
    /\ cycle = 2

\* C3: the loop is left by StopLoop only with every started cycle complete:
\* each cycle that passed its start-of-cycle check has written its
\* screenshot and has called context.close(), whenever the signal came.
C3_StopOnlyBetweenCycles ==
    raised = "StopLoop" =>
        /\ Len(hist.shots) = cycle
        /\ hist.ctx_closes = cycle
        /\ \A k \in 1..cycle : hist.shots[k][2] = Format04d(k)

\* The flag is set while a cycle is between its start-of-cycle check and its
\* capture, and the capture has happened all the same.
C3_Witness ==
    /\ pc = "close_context"
    /\ should_stop
    /\ cycle = 1
    /\ Len(hist.shots) = 1

BadBounds(c) ==
    \/ c.max_minutes < c.min_minutes
    \/ c.min_minutes <= 0
    \/ c.max_minutes <= 0

\* C4: a run whose configuration has max < min, or a bound <= 0, never gets
\* past parse_args: it makes no driver call (no launch, context, navigation
\* or capture) and ends with the usage error.
C4_BadBoundsRejected ==
    BadBounds(config) =>
        /\ pc \in {"parse", "exited"}
        /\ hist.calls = {}
        /\ browser = "none"
        /\ contexts = {}
        /\ hist.navigated = << >>
        /\ hist.shots = << >>
        /\ pc = "exited" => exit_status /= 0 /\ diagnostic \in {"usage", "killed"}

C4_Witness ==
    /\ config.min_minutes > 0
    /\ config.max_minutes < config.min_minutes
    /\ pc = "exited"
    /\ exit_status = 2
    /\ diagnostic = "usage"

\* C5: in the sleep phase of every cycle, the wait that was chosen is
\* fixed_interval_minutes * 60 s when a fixed interval is set, whatever min
\* and max are, and otherwise lies in [min_minutes * 60 s, max_minutes * 60 s].
C5_WaitInRange ==
    pc \in SleepPcs =>
        IF config.fixed_interval_minutes /= NoFixed
        THEN wait_seconds * MinuteUnits =
                config.fixed_interval_minutes[1] * SecondsPerMinute * TicksPerSecond
        ELSE /\ config.min_minutes * SecondsPerMinute * TicksPerSecond
                   <= wait_seconds * MinuteUnits
             /\ wait_seconds * MinuteUnits
                   <= config.max_minutes * SecondsPerMinute * TicksPerSecond

\* A second cycle draws the upper end of a range that is not a point, after
\* a first cycle that has drawn its own value.
C5_Witness ==
    /\ pc \in SleepPcs
    /\ cycle = 2
    /\ config.fixed_interval_minutes = NoFixed
    /\ config.min_minutes < config.max_minutes
    /\ wait_seconds * MinuteUnits =
          config.max_minutes * SecondsPerMinute * TicksPerSecond

\* C6: when the loop was left by StopLoop the process exits with status 0,
\* whether or not browser.close() raised in the finally block.
C6_StopExitsZero ==
    pc = "exited" /\ raised = "StopLoop" =>
        /\ exit_status = 0
        /\ diagnostic = "Stopped."
        /\ hist.closes = 1

C6_Witness ==
    /\ pc = "exited"
    /\ raised = "StopLoop"
    /\ hist.close_failed
    /\ exit_status = 0

\* C7: once playwright or its browser binary is found missing, the process
\* has exited with a non-zero status and the matching install message, and
\* no driver call other than the launch itself was or will be made.
C7_MissingDependencyExits ==
    hist.missing /= "none" =>
        /\ pc = "exited"
        /\ exit_status > 0
        /\ diagnostic = (IF hist.missing = "module" THEN "install playwright"
                         ELSE "install chromium")
        /\ hist.calls \subseteq {"launch"}
        /\ hist.missing = "module" => hist.calls = {}
        /\ contexts = {}
        /\ hist.navigated = << >>
        /\ hist.shots = << >>
        /\ hist.closes = 0

C7_Witness ==
    /\ hist.missing = "browser"
    /\ pc = "exited"
    /\ exit_status = 1
    /\ hist.calls = {"launch"}

\* The program's variables other than the flag.
LoopState ==
    << config, pc, exit_status, diagnostic, handlers, clock, browser,
       start_time, follow_rotation_active, orig_lat_val, orig_long_val,
       current_long, current_url, cycle, contexts, out_path, wait_seconds,
       wake_at, sleep_until, raised >>

\* C8: the flag is false at the start and never goes from true to false;
\* every handled signal leaves it true and changes nothing else of the
\* program's state, so a signal that finds it true changes nothing at all.
C8_FlagMonotonic ==
    /\ should_stop = FALSE
    /\ [][/\ should_stop => should_stop'
          /\ hist'.signals > hist.signals =>
                /\ handlers
                /\ should_stop'
                /\ LoopState' = LoopState]_vars

C8_Witness ==
    /\ hist.signals = 2
    /\ should_stop
    /\ pc = "sleeping"

\* The longitude of the first coordinate pair of a URL.
UrlLong(u) == u[SearchCoord(u)].long

\* original_longitude - 15 degrees * hours elapsed, before wrapping.
Unwrapped(e) ==
    UrlLong(config.url)
    - (DegPerHour * e * FinePerDegree) \div (SecondsPerHour * TicksPerSecond)

HalfTurnFine == HalfTurn * FinePerDegree
FullTurnFine == FullTurn * FinePerDegree

Turn(e) == (Unwrapped(e) + HalfTurnFine) \div FullTurnFine

Wrapped(k) == Turn(hist.url_elapsed[k + 1]) /= Turn(hist.url_elapsed[k])

\* C10 (as stated): the longitude in each URL is strictly less than the one
\* in the URL of the cycle before, unless the value wrapped in between.
C10_StrictlyDecreasing ==
    follow_rotation_active =>
        \A k \in 1..(Len(hist.navigated) - 1) :
            \/ Wrapped(k)
            \/ UrlLong(hist.navigated[k + 1]) < UrlLong(hist.navigated[k])

\* C10 (amended): the longitude in each URL is never greater than the one
\* in the URL of the cycle before (it is equal when the rotation between the
\* two does not show at two decimals), unless the value wrapped in between.
C10_NeverIncreasing ==
    follow_rotation_active =>
        \A k \in 1..(Len(hist.navigated) - 1) :
            \/ Wrapped(k)
            \/ UrlLong(hist.navigated[k + 1]) <= UrlLong(hist.navigated[k])

C10_Witness ==
    /\ follow_rotation_active
    /\ Len(hist.navigated) = 2
    /\ ~Wrapped(1)
    /\ hist.url_elapsed[2] > hist.url_elapsed[1]
    /\ UrlLong(hist.navigated[2]) = UrlLong(hist.navigated[1])

\* C11 (as stated, checked under WrapSpec): for every float x, wrap(x) lies
\* in [-180, 180) and wrap(wrap(x)) = wrap(x).
C11_WrapTotalIdempotent ==
    /\ pc \in {"wrapped", "rewrapped"} =>
          /\ 0 - HalfTurnFine <= current_long
          /\ current_long < HalfTurnFine
    /\ pc = "rewrapped" => current_long = Wrap(orig_long_val)

\* The float next below -180: its wrap is +180, and the wrap of that is -180.
C11_Witness ==
    /\ pc = "rewrapped"
    /\ orig_long_val = 0 - HalfTurnFine - 1
    /\ Wrap(orig_long_val) = HalfTurnFine
    /\ current_long = 0 - HalfTurnFine

\* The latitude of the first coordinate pair of a URL.
UrlLat(u) == u[SearchCoord(u)].lat

\* C12 (as stated): with rotation followed, every URL navigated to is the
\* configured URL with only the longitude of its first pair replaced: the
\* latitude of that pair, every later pair and every other part are those of
\* the configured URL.
C12_OnlyLongitudeChanges ==
    follow_rotation_active =>
        \A k \in 1..Len(hist.navigated) :
            LET u == hist.navigated[k]
            IN  /\ Len(u) = Len(config.url)
                /\ \A i \in 1..Len(u) :
                      i /= SearchCoord(config.url) => u[i] = config.url[i]
                /\ u[SearchCoord(config.url)].pair
                /\ UrlLat(u) = UrlLat(config.url)

\* A second cycle's URL in which the later pair and the text are those of the
\* configured URL and the latitude of the first pair is not.
C12_Witness ==
    /\ follow_rotation_active
    /\ Len(hist.navigated) = 2
    /\ \A i \in 1..Len(config.url) :
          i /= SearchCoord(config.url) => hist.navigated[2][i] = config.url[i]
    /\ \E i \in 1..Len(config.url) :
          i /= SearchCoord(config.url) /\ config.url[i].pair
    /\ UrlLat(hist.navigated[2]) = Format2(UrlLat(config.url))
    /\ UrlLat(hist.navigated[2]) /= UrlLat(config.url)

C14_AtMostOneContext ==
    /\ Cardinality(contexts) <= 1
    /\ pc = "new_context" => contexts = {}

\* The second cycle has its context while the first cycle's, whose close
\* raised, is still open.
C14_Witness ==
    /\ cycle = 2
    /\ pc = "stamp"
    /\ contexts = {1, 2}
    /\ hist.ctx_closes = 1

\* C15: browser.close() is called at most once; it has not been called while
\* the loop runs or is being left; once the process has ended after the
\* loop was left, by StopLoop (seen at the start of a cycle or in the sleep)
\* or by an error of a cycle, it has been called exactly once; and it is
\* never called when the launch failed.
C15_BrowserClosedOnce ==
    /\ hist.closes <= 1
    /\ pc \in LoopPcs \cup {"cleanup"} => hist.closes = 0
    /\ pc = "exited" /\ raised /= "none" => hist.closes = 1
    /\ hist.closes = 1 =>
          /\ pc = "exited"
          /\ raised /= "none"
          /\ browser = "closed"
          /\ "launch" \in hist.calls
    /\ hist.cause = "launch" =>
          /\ hist.closes = 0
          /\ browser = "none"
          /\ "close_browser" \notin hist.calls

\* The loop was left by a failed capture in the second cycle.
C15_Witness ==
    /\ pc = "exited"
    /\ raised = "Error"
    /\ hist.cause = "screenshot"
    /\ cycle = 2
    /\ hist.closes = 1

CycleCalls == {"new_context", "goto", "wait_for_selector", "screenshot"}

\* C16: an error of a cycle's call that is not a Timeout of page.goto or of
\* wait_for_selector (those, and an error of context.close(), leave the loop
\* running) ends the run: the loop has been left for good, the failing cycle
\* and every later one write no screenshot, and the process ends with a
\* traceback and a status other than 0.
C16_OtherErrorsEndRun ==
    /\ hist.cause \in CycleCalls =>
          /\ raised = "Error"
          /\ pc \in {"cleanup", "exited"}
          /\ Len(hist.shots) = cycle - 1
          /\ Len(hist.navigated) < cycle \/ hist.cause /= "goto"
          /\ pc = "exited" => exit_status /= 0 /\ diagnostic = "traceback"
    /\ raised = "Error" => hist.cause \in CycleCalls \cup {"sleep"}
    /\ pc \in LoopPcs => raised = "none" /\ hist.cause = "none"

\* The second cycle's navigation failed with an error that is not a Timeout,
\* after a first cycle that was completed.
C16_Witness ==
    /\ pc = "exited"
    /\ raised = "Error"
    /\ hist.cause = "goto"
    /\ cycle = 2
    /\ Len(hist.shots) = 1
    /\ hist.ctx_closes = 1
    /\ exit_status = 1

\* The statements of a cycle, from the creation of its context to the choice
\* of its wait: wake_at still holds the deadline of the cycle before.
CyclePcs == {"new_context", "stamp", "goto", "selector", "settle", "settling",
             "screenshot", "close_context", "choose_wait"}

\* C17: the deadline is the clock read after the capture plus the wait chosen
\* for the cycle; the sleep phase is left for the next cycle only by the
\* loop's test finding the clock at or past the deadline, and otherwise only
\* by StopLoop on the flag (or by the error of a sleep asked for past the
\* deadline), after which no cycle starts; so a later cycle never runs with
\* the clock before the deadline of the cycle before it.
C17_CyclesSeparatedByWait ==
    /\ [][/\ pc = "choose_wait" /\ pc' /= pc =>
                /\ pc' = "sleep_test"
                /\ wait_seconds' \in choose_wait_seconds(config)
                /\ wake_at' = clock + wait_seconds'
                /\ Len(hist.shots) = cycle
          /\ pc \in SleepPcs /\ pc' \notin SleepPcs =>
                \/ /\ pc = "sleep_test"
                   /\ pc' = "loop_top"
                   /\ clock >= wake_at
                \/ /\ pc = "sleep_check"
                   /\ should_stop
                   /\ pc' = "cleanup"
                   /\ raised' = "StopLoop"
                \/ /\ pc = "sleep_read"
                   /\ clock > wake_at
                   /\ pc' = "cleanup"
                   /\ raised' = "Error"
          /\ pc \in SleepPcs => wake_at' = wake_at]_vars
    /\ [](/\ cycle >= 2 /\ pc \in CyclePcs => clock >= wake_at
          /\ pc = "loop_top" /\ cycle >= 1 => clock >= wake_at
          /\ raised /= "none" => pc \in {"cleanup", "exited"})

\* The second cycle starts after a wait of two seconds, of which the last
\* sleep increment returned late.
C17_Witness ==
    /\ cycle = 2
    /\ pc = "stamp"
    /\ wait_seconds = 2 * OneSecond
    /\ clock >= wake_at
    /\ hist.last_slice = OneSecond

\* --follow-rotation was not given, or the URL has no coordinate pair.
RotationOff(c) == ~c.follow_rotation \/ SearchCoord(c.url) = 0

\* C18: when --follow-rotation is off or finds no coordinate pair, the run
\* goes on without rotation: once the rotation state is set up, rotation is
\* not active, the effective URL is the configured one at every moment, every
\* navigation goes to exactly the configured URL, and the run does not end
\* for it (it ends only as a run with rotation can).
C18_UrlFixedWithoutRotation ==
    RotationOff(config) /\ handlers =>
        /\ ~follow_rotation_active
        /\ current_url = config.url
        /\ hist.url_elapsed = << >>
        /\ \A k \in 1..Len(hist.navigated) : hist.navigated[k] = config.url
        /\ pc = "exited" =>
              \/ raised = "StopLoop" /\ exit_status = 0
              \/ raised = "Error" /\ hist.cause \in CycleCalls \cup {"sleep"}
              \/ raised = "none" /\ hist.cause = "launch"

\* --follow-rotation with a URL without coordinates: the second cycle
\* navigates to the configured URL, seconds after the first.
C18_Witness ==
    /\ config.follow_rotation
    /\ SearchCoord(config.url) = 0
    /\ cycle = 2
    /\ Len(hist.navigated) = 2
    /\ hist.navigated[2] = config.url
    /\ clock >= 2 * OneSecond

\* C19 (as stated): every sleep increment asked for in the inter-cycle wait
\* has a length from 0 to 1 second, however the clock advances between the
\* loop's test and the read that computes the length.
C19_SliceInRange ==
    /\ 0 <= hist.last_slice
    /\ hist.last_slice <= OneSecond

\* The clock passed the deadline between the loop's test and the second
\* read: a negative length was asked for and time.sleep raised.
C19_Witness ==
    /\ pc = "cleanup"
    /\ raised = "Error"
    /\ hist.cause = "sleep"
    /\ hist.last_slice < 0
    /\ clock > wake_at

\* C20 (as stated): for every accepted configuration, a fixed interval
\* included, the wait chosen after a cycle is strictly positive and the flag
\* is checked in the sleep phase before the next cycle starts.
C20_WaitPositive ==
    /\ pc \in SleepPcs => wait_seconds > 0
    /\ cycle >= 2 /\ pc \in CyclePcs => wait_seconds > 0

\* --fixed-interval 0: the second cycle starts at the clock time at which the
\* first one chose its wait, with no sleep increment in between.
C20_Witness ==
    /\ config.fixed_interval_minutes = Some(0)
    /\ ~Rejected(config)
    /\ cycle = 2
    /\ pc = "new_context"
    /\ wait_seconds = 0
    /\ clock = wake_at
    /\ hist.last_slice = 0

=============================================================================
